---- MODULE Spec2Model ----
(***************************************************************************)
(* The consensus core of node/src/core.rs (struct Core and its handlers)   *)
(* as a state machine.  One replica (Name) is modelled; the other          *)
(* replicas, the mempool, the synchronizer and the timer manager are its   *)
(* environment.  Every handler is an operator from a core state (a record  *)
(* of the fields of Core, its channels and its collaborators' state) to    *)
(* the core state it leaves; the actions apply the handlers to the         *)
(* variables.                                                              *)
(***************************************************************************)
EXTENDS Integers, Sequences, FiniteSets, TLC

\* Bounds of the model: rounds run from 0 to MaxRound, and the blocks the
\* other replicas propose hang at most MaxDepth blocks above genesis.
MaxRound == 3
MaxDepth == 3
\* The mempool and the synchronizer hold at most MaxDeferred blocks, and
\* timer_channel at most MaxFired timer ids.
MaxDeferred == 1
MaxFired == 1
\* A replica alone in its committee runs through SoloRounds rounds.
SoloRounds == 6

\* This replica's public key (Core.name) and the committees it is run in.
Name == 1
Committees == {1 .. 1, 1 .. 2}

VARIABLES
    committee,          \* Core.committee (fixed at construction)
    pc,                 \* "boot" before Core::run's preamble, "loop" in its select loop
    round,              \* Core.round
    last_voted_round,   \* Core.last_voted_round
    preferred_round,    \* Core.preferred_round
    highest_qc,         \* Core.highest_qc
    store,              \* Core.store: the blocks written, keyed by their digest
    deferred,           \* blocks the mempool or the synchronizer will loop back
    loopback,           \* messages this core sent itself on loopback_channel, FIFO
    aggregator,         \* Core.aggregator: the votes it holds
    timers,             \* timer ids scheduled in Core.timer_manager, not yet fired
    rx_timer,           \* timer ids fired into timer_channel, not yet served
    votes_out,          \* votes emitted (loopback or network), in order
    blocks_out,         \* blocks broadcast on network_channel, in order
    sync_out,           \* sync replies sent on network_channel
    commit_channel      \* blocks sent on commit_channel, in order

vars == <<committee, pc, round, last_voted_round, preferred_round, highest_qc,
          store, deferred, loopback, aggregator, timers, rx_timer,
          votes_out, blocks_out, sync_out, commit_channel>>

(***************************************************************************)
(* Messages (crate::messages).  A digest is modelled by the content it     *)
(* hashes, so digests are collision free; an Option is a sequence of       *)
(* length at most one.                                                     *)
(***************************************************************************)
None == <<>>
Some(x) == <<x>>
Range(q) == { q[i] : i \in 1 .. Len(q) }

GenesisDigest == <<>>
QCGenesis == [hash |-> GenesisDigest, round |-> 0]
Genesis == [author |-> 0, round |-> 0, qc |-> QCGenesis, tc |-> None]

digest(b) == IF b = Genesis THEN GenesisDigest
             ELSE <<b.author, b.round, b.qc, b.tc>>

TC(r) == [round |-> r]
NewBlock(qc, tc, author, r) == [author |-> author, round |-> r, qc |-> qc, tc |-> tc]

\* Vote::new and Vote::new_timeout
NewVote(block, author) ==
    [kind |-> "block", hash |-> digest(block), round |-> block.round, author |-> author]
NewTimeout(r, author) ==
    [kind |-> "timeout", hash |-> GenesisDigest, round |-> r, author |-> author]

(***************************************************************************)
(* Collaborators.                                                          *)
(***************************************************************************)
\* LeaderElector::get_leader: round robin over the committee.
get_leader(c, r) == (r % Cardinality(c)) + 1

\* The quorum threshold n - f, f = (n - 1) / 3.
QuorumThreshold(c) == Cardinality(c) - ((Cardinality(c) - 1) \div 3)

\* Store::read
store_read(st, h) == IF \E b \in st : digest(b) = h
                     THEN Some(CHOOSE b \in st : digest(b) = h)
                     ELSE None

\* Synchronizer::get_previous_block and Synchronizer::get_ancestors
get_previous_block(st, block) ==
    IF block.qc = QCGenesis THEN Some(Genesis) ELSE store_read(st, block.qc.hash)

get_ancestors(st, block) ==
    LET p2 == get_previous_block(st, block) IN
    IF p2 = None THEN None
    ELSE LET p1 == get_previous_block(st, p2[1]) IN
         IF p1 = None THEN None
         ELSE LET p0 == get_previous_block(st, p1[1]) IN
              IF p0 = None THEN None
              ELSE Some([b0 |-> p0[1], b1 |-> p1[1], b2 |-> p2[1]])

\* Aggregator::add_vote and Aggregator::cleanup.  add_vote refuses a second
\* vote of one signer for one (round, kind); it returns a quorum when the
\* vote is the one that brings the votes for its (round, kind, hash) to the
\* threshold.
agg_accepts(s, vote) ==
    /\ vote.author \in s.committee
    /\ ~ \E w \in s.aggregator :
           w.author = vote.author /\ w.round = vote.round /\ w.kind = vote.kind

agg_add(s, vote) ==
    IF agg_accepts(s, vote) THEN s.aggregator \cup {vote} ELSE s.aggregator

agg_quorum(s, vote) ==
    /\ agg_accepts(s, vote)
    /\ Cardinality({w \in agg_add(s, vote) :
                      w.round = vote.round /\ w.kind = vote.kind /\ w.hash = vote.hash})
         = QuorumThreshold(s.committee)

agg_cleanup(agg, r) == {w \in agg : w.round >= r}

(***************************************************************************)
(* The handlers of Core.                                                   *)
(***************************************************************************)
\* Core::schedule_timer
schedule_timer(s) == [s EXCEPT !.timers = @ \cup {s.round}]

\* Core::make_block
make_block_without_tc(s, qc, tc, r) ==
    LET block == NewBlock(qc, None, Name, r) IN
    [s EXCEPT !.loopback = Append(@, [type |-> "LoopBack", block |-> block]),
              !.blocks_out = Append(@, block)]

make_block(s, qc, tc, r) ==
    LET block == NewBlock(qc, tc, Name, r) IN
    [s EXCEPT !.loopback = Append(@, [type |-> "LoopBack", block |-> block]),
              !.blocks_out = Append(@, block)]

\* Sending a vote: loopback when the next leader is this replica, else unicast.
send_vote(s, vote) ==
    LET next_leader == get_leader(s.committee, s.round + 1)
        sent == [s EXCEPT !.votes_out = Append(@, [vote |-> vote, to |-> next_leader])]
    IN IF next_leader = Name
       THEN [sent EXCEPT !.loopback = Append(@, [type |-> "Vote", vote |-> vote])]
       ELSE sent

\* process_block, lines 230-247: enter the new round.
enter_round_unguarded(s, block) ==
    LET possible_new_round ==
            IF block.tc # None THEN block.tc[1].round + 1 ELSE block.qc.round + 1
    IN schedule_timer(
           [s EXCEPT !.timers = @ \ {s.round},
                     !.round = possible_new_round,
                     !.aggregator = agg_cleanup(@, possible_new_round)])

enter_round_tc_only(s, block) ==
    IF block.tc # None /\ s.round < block.tc[1].round + 1
    THEN schedule_timer(
             [s EXCEPT !.timers = @ \ {s.round},
                       !.round = block.tc[1].round + 1,
                       !.aggregator = agg_cleanup(@, block.tc[1].round + 1)])
    ELSE s

enter_round(s, block) ==
    LET possible_new_round ==
            IF block.tc # None THEN block.tc[1].round + 1 ELSE block.qc.round + 1
    IN IF s.round < possible_new_round
       THEN schedule_timer(
                [s EXCEPT !.timers = @ \ {s.round},
                          !.round = possible_new_round,
                          !.aggregator = agg_cleanup(@, possible_new_round)])
       ELSE s

\* process_block, lines 249-252: update the highest QC.
update_highest_qc(s, block) ==
    IF block.qc.round > s.highest_qc.round
    THEN [s EXCEPT !.highest_qc = block.qc]
    ELSE s

\* process_block, lines 254-264: the 3-chain commit rule.
commit_rule_two_links(anc, block) ==
    /\ anc.b1.round + 1 = anc.b2.round
    /\ anc.b2.round + 1 = block.round

commit_rule(anc, block) ==
    /\ anc.b0.round + 1 = anc.b1.round
    /\ anc.b1.round + 1 = anc.b2.round
    /\ anc.b2.round + 1 = block.round

commit(s, anc, block) ==
    IF commit_rule(anc, block)
    THEN [s EXCEPT !.commit_channel = Append(@, anc.b0)]
    ELSE s

\* process_block, lines 266-290: the safety rules and the vote.
safety_rule_1_strict(s, anc) == anc.b2.round > s.preferred_round
safety_rule_1(s, anc) == anc.b2.round >= s.preferred_round
safety_rule_2_not_strict(s, block) == block.round >= s.last_voted_round
safety_rule_2(s, block) == block.round > s.last_voted_round

Max(a, b) == IF a >= b THEN a ELSE b

vote(s, anc, block) ==
    IF safety_rule_1(s, anc) /\ safety_rule_2(s, block)
    THEN [send_vote(s, NewVote(block, Name)) EXCEPT
              !.preferred_round = Max(s.preferred_round, anc.b1.round),
              !.last_voted_round = block.round]
    ELSE s

\* Core::store_block
store_block(s, block) == [s EXCEPT !.store = @ \cup {block}]

\* process_block, lines 228-292: what follows the ancestors' resolution.
deliver(s, anc, block) ==
    vote(commit(update_highest_qc(enter_round(store_block(s, block), block), block),
                anc, block),
         anc, block)

process_block_write_unchecked(s, block, f) ==
    IF f = "not_ready" THEN [s EXCEPT !.deferred = @ \cup {block}]
    ELSE IF f = "read_err" /\ block.qc # QCGenesis THEN s
    ELSE LET anc == get_ancestors(s.store, block) IN
         IF anc = None THEN [s EXCEPT !.deferred = @ \cup {block}]
         ELSE IF f = "write_err"
              THEN vote(commit(update_highest_qc(enter_round(s, block), block),
                               anc[1], block),
                        anc[1], block)
              ELSE deliver(s, anc[1], block)

process_block_store_first(s, block, f) ==
    LET stored == store_block(s, block) IN
    IF f = "not_ready" THEN [stored EXCEPT !.deferred = @ \cup {block}]
    ELSE IF f = "read_err" /\ block.qc # QCGenesis THEN s
    ELSE LET anc == get_ancestors(s.store, block) IN
         IF anc = None THEN [stored EXCEPT !.deferred = @ \cup {block}]
         ELSE IF f = "write_err" THEN s
         ELSE deliver(s, anc[1], block)

\* Core::process_block.  f names the step that fails in this execution, if
\* one does: "not_ready" (Mempool::ready is false), "read_err" (the store
\* read of get_ancestors fails), "write_err" (the store write fails), or
\* "ok".  Every failure returns at once, so one name is enough.
process_block(s, block, f) ==
    IF f = "not_ready" THEN [s EXCEPT !.deferred = @ \cup {block}]
    ELSE IF f = "read_err" /\ block.qc # QCGenesis THEN s
    ELSE LET anc == get_ancestors(s.store, block) IN
         IF anc = None THEN [s EXCEPT !.deferred = @ \cup {block}]
         ELSE IF f = "write_err" THEN s
         ELSE deliver(s, anc[1], block)

\* handle_propose, lines 176-179: the round is the one the certificate allows.
round_consistent_at_least(block) ==
    IF block.tc # None THEN block.round >= block.tc[1].round + 1
    ELSE block.round >= block.qc.round + 1

round_consistent(block) ==
    IF block.tc # None THEN block.round = block.tc[1].round + 1
    ELSE block.round = block.qc.round + 1

\* Core::handle_propose.  f may also name a verification that fails:
\* "bad_sig", "bad_qc", "bad_tc".
propose_accepts_unsigned(s, block, f) ==
    /\ block.round > s.round
    /\ round_consistent(block)
    /\ block.author = get_leader(s.committee, block.round)
    /\ ~ (block.qc # QCGenesis /\ f = "bad_qc")
    /\ ~ (block.tc # None /\ f = "bad_tc")

propose_accepts(s, block, f) ==
    /\ block.round > s.round
    /\ round_consistent(block)
    /\ block.author = get_leader(s.committee, block.round)
    /\ f # "bad_sig"
    /\ ~ (block.qc # QCGenesis /\ f = "bad_qc")
    /\ ~ (block.tc # None /\ f = "bad_tc")

handle_propose(s, block, f) ==
    IF propose_accepts(s, block, f) THEN process_block(s, block, f) ELSE s

\* Core::handle_vote
handle_vote_no_discard(s, v) ==
    LET added == [s EXCEPT !.aggregator = agg_add(s, v)]
        next_round == v.round + 1
    IN IF agg_quorum(s, v) /\ Name = get_leader(s.committee, next_round)
       THEN IF v.kind = "timeout"
            THEN make_block(added, s.highest_qc, Some(TC(v.round)), next_round)
            ELSE make_block(added, [hash |-> v.hash, round |-> v.round], None,
                            next_round)
       ELSE added

handle_vote_stale_qc(s, v) ==
    IF v.round < s.round THEN s
    ELSE LET added == [s EXCEPT !.aggregator = agg_add(s, v)]
             next_round == v.round + 1
         IN IF agg_quorum(s, v) /\ Name = get_leader(s.committee, next_round)
            THEN IF v.kind = "timeout"
                 THEN make_block(added, s.highest_qc, Some(TC(v.round)), next_round)
                 ELSE make_block(added, s.highest_qc, None, next_round)
            ELSE added

handle_vote(s, v) ==
    IF v.round < s.round THEN s
    ELSE LET added == [s EXCEPT !.aggregator = agg_add(s, v)]
             next_round == v.round + 1
         IN IF agg_quorum(s, v) /\ Name = get_leader(s.committee, next_round)
            THEN IF v.kind = "timeout"
                 THEN make_block(added, s.highest_qc, Some(TC(v.round)), next_round)
                 ELSE make_block(added, [hash |-> v.hash, round |-> v.round], None,
                                 next_round)
            ELSE added

\* Core::make_timeout
make_timeout_to_round_leader(s) ==
    LET s1 == [s EXCEPT !.round = @ + 1]
        timeout == NewTimeout(s1.round, Name)
        leader == get_leader(s.committee, s1.round)
        sent == [s1 EXCEPT !.votes_out = Append(@, [vote |-> timeout, to |-> leader])]
    IN schedule_timer(
           IF leader = Name
           THEN [sent EXCEPT !.loopback = Append(@, [type |-> "Vote", vote |-> timeout])]
           ELSE sent)

make_timeout(s) ==
    LET s1 == [s EXCEPT !.round = @ + 1] IN
    schedule_timer(send_vote(s1, NewTimeout(s1.round, Name)))

\* Core::handle_sync_request
handle_sync_request(s, d, sender) ==
    LET bytes == store_read(s.store, d) IN
    IF bytes # None
    THEN [s EXCEPT !.sync_out = @ \cup {[block |-> bytes[1], to |-> sender]}]
    ELSE s

\* Core::run, lines 361-368: the preamble of the event loop.
boot_without_block(s) == schedule_timer(s)

boot(s) ==
    LET s1 == schedule_timer(s) IN
    IF Name = get_leader(s.committee, 1)
    THEN make_block(s1, s1.highest_qc, None, 1)
    ELSE s1

(***************************************************************************)
(* The state machine.                                                      *)
(***************************************************************************)
St == [committee |-> committee, round |-> round,
       last_voted_round |-> last_voted_round, preferred_round |-> preferred_round,
       highest_qc |-> highest_qc, store |-> store, deferred |-> deferred,
       loopback |-> loopback, aggregator |-> aggregator, timers |-> timers,
       rx_timer |-> rx_timer, votes_out |-> votes_out, blocks_out |-> blocks_out,
       sync_out |-> sync_out, commit_channel |-> commit_channel]

Becomes(t) ==
    /\ round' = t.round
    /\ last_voted_round' = t.last_voted_round
    /\ preferred_round' = t.preferred_round
    /\ highest_qc' = t.highest_qc
    /\ store' = t.store
    /\ deferred' = t.deferred
    /\ loopback' = t.loopback
    /\ aggregator' = t.aggregator
    /\ timers' = t.timers
    /\ rx_timer' = t.rx_timer
    /\ votes_out' = t.votes_out
    /\ blocks_out' = t.blocks_out
    /\ sync_out' = t.sync_out
    /\ commit_channel' = t.commit_channel
    /\ UNCHANGED committee

\* Core::make, lines 94-113.
Started(c) ==
    /\ committee = c
    /\ pc = "boot"
    /\ round = 0
    /\ last_voted_round = 0
    /\ preferred_round = 0
    /\ highest_qc = QCGenesis
    /\ store = {}
    /\ deferred = {}
    /\ loopback = <<>>
    /\ aggregator = {}
    /\ timers = {}
    /\ rx_timer = <<>>
    /\ votes_out = <<>>
    /\ blocks_out = <<>>
    /\ sync_out = {}
    /\ commit_channel = <<>>

Init == \E c \in Committees : Started(c)

\* The blocks the other replicas can send: every chain of round-consistent
\* blocks, each signed by the leader of its round, of at most MaxDepth
\* blocks above genesis; a QC certifies the block its hash names, with that
\* block's round.
Child(c, p, tc) ==
    LET r == IF tc # None THEN tc[1].round + 1 ELSE p.round + 1 IN
    NewBlock([hash |-> digest(p), round |-> p.round], tc, get_leader(c, r), r)

ChildrenOf(c, p) ==
    (IF p.round < MaxRound THEN { Child(c, p, None) } ELSE {})
    \cup { Child(c, p, Some(TC(t))) : t \in 1 .. MaxRound - 1 }

RECURSIVE ChainBlocks(_, _)
ChainBlocks(c, k) ==
    IF k = 0 THEN {Genesis}
    ELSE LET below == ChainBlocks(c, k - 1) IN
         below \cup UNION { ChildrenOf(c, p) : p \in below }

\* A committee in which this replica leads no round before the sixth, and a
\* family of blocks its other members can propose there: the chain A1, A2,
\* A3 of rounds 1, 2, 3; a block Y4 of round 4 on genesis; and the chain
\* B5, B2, B4, where B5 (round 5) carries a TC of round 4, B2 (round 2) a TC
\* of round 1 and the QC of B5, and B4 (round 4) a TC of round 3.
FollowerCommittee == 1 .. 6
FollowerBlocks ==
    LET c == FollowerCommittee
        A1 == Child(c, Genesis, None)
        A2 == Child(c, A1, None)
        A3 == Child(c, A2, None)
        Y4 == Child(c, Genesis, Some(TC(3)))
        B5 == Child(c, Genesis, Some(TC(4)))
        B2 == Child(c, B5, Some(TC(1)))
        B4 == Child(c, B2, Some(TC(3)))
    IN {A1, A2, A3, Y4, B5, B2, B4}

\* Blocks that handle_propose must refuse: a round that does not follow the
\* certificate, or an author that is not the leader.
BadBlocks(c) ==
    LET base == ChainBlocks(c, 1) \ {Genesis} IN
    { [b EXCEPT !.round = b.round + 1, !.author = get_leader(c, b.round + 1)] : b \in base }
    \cup { [b EXCEPT !.author = (b.author % Cardinality(c)) + 1] : b \in base }

\* What fails in one execution of process_block, if anything does, and the
\* verifications of handle_propose that can fail before it.
Faults == {"ok", "not_ready", "read_err", "write_err"}
VerifyFaults == {"bad_sig", "bad_qc", "bad_tc"}

\* A block signed by this replica verifies only if this replica made it.
Forged(block) == block.author = Name /\ block \notin Range(blocks_out)

\* The Propose messages the network can deliver: a block of the chains with
\* any failure of its processing, or a block that handle_propose refuses.
ProposeInputs(c) ==
    IF c = FollowerCommittee THEN FollowerBlocks \X Faults ELSE
    { <<b, f>> : b \in ChainBlocks(c, MaxDepth) \ {Genesis}, f \in Faults }
    \cup { <<b, f>> : b \in ChainBlocks(c, 1) \ {Genesis}, f \in VerifyFaults }
    \cup { <<b, "ok">> : b \in BadBlocks(c) }

Boot ==
    /\ pc = "boot"
    /\ pc' = "loop"
    /\ Becomes(boot(St))

\* rx_core yields Propose(block) from the network; the mempool and the
\* synchronizer hold at most k blocks.
Propose(k) ==
    /\ pc = "loop"
    /\ \E in \in ProposeInputs(committee) :
          /\ Forged(in[1]) => in[2] = "bad_sig"
          /\ Cardinality(handle_propose(St, in[1], in[2]).deferred) <= k
          /\ Becomes(handle_propose(St, in[1], in[2]))
    /\ UNCHANGED pc

RecvPropose == Propose(MaxDeferred)

\* rx_core yields Vote(v) from the network: a vote of another replica for a
\* block of the chains, or a timeout vote.
PeerVotes(c) ==
    { NewVote(b, a) : b \in { x \in ChainBlocks(c, MaxDepth - 2) \ {Genesis} : x.round < MaxRound },
                      a \in c \ {Name} }
    \cup { NewTimeout(r, a) : r \in 1 .. MaxRound - 1, a \in c \ {Name} }

RecvVote ==
    /\ pc = "loop"
    /\ \E v \in PeerVotes(committee) : Becomes(handle_vote(St, v))
    /\ UNCHANGED pc

\* rx_core yields SyncRequest(digest, sender) from the network.
RecvSyncRequest ==
    /\ pc = "loop"
    /\ \E b \in { x \in ChainBlocks(committee, MaxDepth) :
                        x = Genesis \/ (x.round = MaxRound /\ x.tc = None) },
          sender \in committee \ {Name} :
          Becomes(handle_sync_request(St, digest(b), sender))
    /\ UNCHANGED pc

\* rx_core yields LoopBack(block) sent by the mempool (the payload arrived)
\* or by the synchronizer (the ancestors arrived) for a block they hold.
RecvLoopBack ==
    /\ pc = "loop"
    /\ \E block \in deferred, f \in Faults :
          Becomes(process_block([St EXCEPT !.deferred = @ \ {block}], block, f))
    /\ UNCHANGED pc

\* rx_core yields the oldest message this core sent itself.
RecvOwnLoopBack ==
    /\ pc = "loop"
    /\ loopback # <<>>
    /\ loopback[1].type = "LoopBack"
    /\ \E f \in Faults :
          /\ Cardinality(process_block(St, loopback[1].block, f).deferred) <= MaxDeferred
          /\ Becomes(process_block([St EXCEPT !.loopback = Tail(@)], loopback[1].block, f))
    /\ UNCHANGED pc

RecvOwnVote ==
    /\ pc = "loop"
    /\ loopback # <<>>
    /\ loopback[1].type = "Vote"
    /\ loopback[1].vote.round < MaxRound
    /\ Becomes(handle_vote([St EXCEPT !.loopback = Tail(@)], loopback[1].vote))
    /\ UNCHANGED pc

\* The timer manager fires a scheduled timer into timer_channel.
TimerFire ==
    /\ pc = "loop"
    /\ Len(rx_timer) < MaxFired
    /\ \E id \in timers :
          /\ timers' = timers \ {id}
          /\ rx_timer' = Append(rx_timer, id)
    /\ UNCHANGED <<committee, pc, round, last_voted_round, preferred_round, highest_qc,
                   store, deferred, loopback, aggregator, votes_out, blocks_out,
                   sync_out, commit_channel>>

\* rx_timer yields a timer id.
RecvTimer ==
    /\ pc = "loop"
    /\ rx_timer # <<>>
    /\ round < MaxRound
    /\ Becomes(make_timeout([St EXCEPT !.rx_timer = Tail(@)]))
    /\ UNCHANGED pc

Next ==
    \/ Boot
    \/ RecvPropose
    \/ RecvVote
    \/ RecvSyncRequest
    \/ RecvLoopBack
    \/ RecvOwnLoopBack
    \/ RecvOwnVote
    \/ TimerFire
    \/ RecvTimer

Spec == Init /\ [][Next]_vars

\* This replica as a follower in FollowerCommittee: it receives the blocks
\* of FollowerBlocks, in any order and any number of times, and the
\* LoopBacks of those it had to put off.
FollowerInit == Started(FollowerCommittee)
FollowerPropose == Propose(MaxDeferred + 1)
FollowerNext == Boot \/ FollowerPropose \/ RecvLoopBack
SpecFollower == FollowerInit /\ [][FollowerNext]_vars

(***************************************************************************)
(* The executions of process_block that can start in the current state:    *)
(* through handle_propose, through a LoopBack of the mempool or of the     *)
(* synchronizer, or through the LoopBack of a block of this replica.       *)
(* before is the state process_block starts in, after the one it leaves.   *)
(***************************************************************************)
ProcessStep(via, before, block, f) ==
    [via |-> via, block |-> block, f |-> f, before |-> before,
     after |-> process_block(before, block, f)]

ProcessSteps ==
    IF pc # "loop" THEN {}
    ELSE { ProcessStep("Propose", St, in[1], in[2]) :
             in \in { x \in ProposeInputs(committee) :
                        /\ Forged(x[1]) => x[2] = "bad_sig"
                        /\ propose_accepts(St, x[1], x[2]) } }
         \cup { ProcessStep("LoopBack", [St EXCEPT !.deferred = @ \ {x[1]}], x[1], x[2]) :
                  x \in deferred \X Faults }
         \cup (IF loopback # <<>> /\ loopback[1].type = "LoopBack"
               THEN { ProcessStep("LoopBack", [St EXCEPT !.loopback = Tail(@)],
                                  loopback[1].block, f) : f \in Faults }
               ELSE {})

\* The step from the current state to the next one is the execution p.
Taken(p) == Becomes(p.after)

IsBlockVote(m) == m.vote.kind = "block"
BlockVotes(q) == SelectSeq(q, IsBlockVote)

(***************************************************************************)
(* C1  Non-equivocation: this replica never emits two block-votes with the *)
(* same round, whatever the route by which the blocks reach process_block. *)
(***************************************************************************)
C1_NonEquivocation ==
    \A i, j \in 1 .. Len(votes_out) :
        (i < j /\ IsBlockVote(votes_out[i]) /\ IsBlockVote(votes_out[j]))
            => votes_out[i].vote.round # votes_out[j].vote.round

\* Two blocks of one round were delivered, and only one of them was voted.
C1_Witness ==
    \E b \in store : \E i \in 1 .. Len(votes_out) :
        /\ IsBlockVote(votes_out[i])
        /\ votes_out[i].vote.round = b.round
        /\ votes_out[i].vote.hash # digest(b)

(***************************************************************************)
(* C2  Commit safety: a step that sends on the commit channel is an        *)
(* execution of process_block(b) whose ancestors b0, b1, b2 have           *)
(* consecutive rounds up to b.round, and it sends b0 and nothing else.     *)
(***************************************************************************)
C2_CommitSafety ==
    [][commit_channel' # commit_channel =>
         \E p \in ProcessSteps :
            /\ Taken(p)
            /\ LET anc == get_ancestors(p.before.store, p.block) IN
               /\ anc # None
               /\ anc[1].b0.round + 1 = anc[1].b1.round
               /\ anc[1].b1.round + 1 = anc[1].b2.round
               /\ anc[1].b2.round + 1 = p.block.round
               /\ commit_channel' = Append(commit_channel, anc[1].b0)]_vars

C2_Witness == commit_channel # <<>>

C4_LastVotedAtMostRound == last_voted_round <= round

\* This replica voted for a block, and a timeout then moved it further.
C4_Witness ==
    /\ 0 < last_voted_round
    /\ last_voted_round < round
    /\ \E i \in 1 .. Len(votes_out) :
          ~ IsBlockVote(votes_out[i]) /\ votes_out[i].vote.round = round

(***************************************************************************)
(* C5  State invariant 3: preferred_round <= last_voted_round in every     *)
(* state between two handlers.                                             *)
(***************************************************************************)
C5_PreferredAtMostLastVoted == preferred_round <= last_voted_round

(***************************************************************************)
(* C6  Monotonicity: no step decreases round, last_voted_round or          *)
(* preferred_round.                                                        *)
(***************************************************************************)
C6_Monotonic ==
    [][/\ round' >= round
       /\ last_voted_round' >= last_voted_round
       /\ preferred_round' >= preferred_round]_vars

\* All three have moved, and a block of an earlier round was delivered
\* after the round had passed it.
C6_Witness ==
    /\ preferred_round > 0
    /\ \E b \in store : b.round < round /\ b.round < last_voted_round

(***************************************************************************)
(* C7  Durability before advancement: an execution of process_block(b)     *)
(* that changes round, highest_qc, last_voted_round or preferred_round, or *)
(* that emits a vote or a commit, has written b to the store; one whose    *)
(* store write fails changes none of them and emits nothing.               *)
(***************************************************************************)
Advanced(p) ==
    \/ p.after.round # p.before.round
    \/ p.after.highest_qc # p.before.highest_qc
    \/ p.after.last_voted_round # p.before.last_voted_round
    \/ p.after.preferred_round # p.before.preferred_round
    \/ p.after.votes_out # p.before.votes_out
    \/ p.after.commit_channel # p.before.commit_channel

C7_DurabilityBeforeAdvancement ==
    \A p \in ProcessSteps :
        /\ Advanced(p) => (p.f # "write_err" /\ p.block \in p.after.store)
        /\ p.f = "write_err" => (~ Advanced(p) /\ p.after.store = p.before.store)

\* A store write fails for a block whose ancestors are there and which
\* would otherwise have moved the round.
C7_Witness ==
    \E p \in ProcessSteps :
        /\ p.f = "write_err"
        /\ get_ancestors(p.before.store, p.block) # None
        /\ p.block \notin store
        /\ p.block.round > round
        /\ round > 0

(***************************************************************************)
(* C8  Proposal idempotence: delivering a valid Propose(b) twice has the   *)
(* observable effects of delivering it once, also when the first delivery  *)
(* returns early and the block is looped back later.                       *)
(***************************************************************************)
Observable(s) ==
    [round |-> s.round, last_voted_round |-> s.last_voted_round,
     preferred_round |-> s.preferred_round, highest_qc |-> s.highest_qc,
     store |-> s.store, votes_out |-> s.votes_out, blocks_out |-> s.blocks_out,
     commit_channel |-> s.commit_channel]

\* The state after the LoopBack of block, if s holds it for one.
LoopedBack(s, block) ==
    IF block \in s.deferred
    THEN process_block([s EXCEPT !.deferred = @ \ {block}], block, "ok")
    ELSE s

C8_ProposalIdempotence ==
    pc = "loop" =>
    \A in \in ProposeInputs(committee) :
        LET block == in[1]
            once == handle_propose(St, block, in[2])
            twice == handle_propose(once, block, "ok")
        IN (/\ ~ Forged(block)
            /\ in[2] \in {"ok", "not_ready"}
            /\ block \notin deferred
            /\ propose_accepts(St, block, in[2]))
           => Observable(LoopedBack(once, block)) = Observable(LoopedBack(twice, block))

(***************************************************************************)
(* C9  Loopback equivalence as stated: in every state in which the         *)
(* LoopBack of a block of this replica is served, it leaves the state and  *)
(* the messages that Propose of the same block would leave.                *)
(***************************************************************************)
OwnBlockNext == pc = "loop" /\ loopback # <<>> /\ loopback[1].type = "LoopBack"
Served == [St EXCEPT !.loopback = Tail(@)]

C9_LoopbackEquivalence ==
    OwnBlockNext =>
        \A f \in Faults :
            process_block(Served, loopback[1].block, f)
                = handle_propose(Served, loopback[1].block, f)

\* C9 as amended: the same, in the states whose round is below the block's.
C9_LoopbackEquivalenceWhenFresh ==
    (OwnBlockNext /\ round < loopback[1].block.round) =>
        \A f \in Faults :
            process_block(Served, loopback[1].block, f)
                = handle_propose(Served, loopback[1].block, f)

\* A block of this replica that carries a TC is served while the round is
\* below its round, and its ancestors are there.
C9_Witness ==
    /\ OwnBlockNext
    /\ round < loopback[1].block.round
    /\ loopback[1].block.tc # None
    /\ get_ancestors(store, loopback[1].block) # None
    /\ process_block(Served, loopback[1].block, "ok") # Served

(***************************************************************************)
(* C10  Voting rule: an execution of process_block(b) that reaches the     *)
(* voting stage emits one block-vote for b, and sets preferred_round to    *)
(* max(preferred_round, b1.round) and last_voted_round to b.round, if      *)
(* b2.round >= preferred_round and b.round > last_voted_round; otherwise   *)
(* it emits no vote and leaves both unchanged.                             *)
(***************************************************************************)
ReachesVoting(p) == p.f = "ok" /\ get_ancestors(p.before.store, p.block) # None

C10_VotingRule ==
    \A p \in ProcessSteps :
        ReachesVoting(p) =>
            LET anc == get_ancestors(p.before.store, p.block)[1]
                before == p.before
                after == p.after
            IN IF /\ anc.b2.round >= before.preferred_round
                  /\ p.block.round > before.last_voted_round
               THEN /\ Len(after.votes_out) = Len(before.votes_out) + 1
                    /\ SubSeq(after.votes_out, 1, Len(before.votes_out)) = before.votes_out
                    /\ after.votes_out[Len(after.votes_out)].vote =
                           [kind |-> "block", hash |-> digest(p.block),
                            round |-> p.block.round, author |-> Name]
                    /\ after.preferred_round =
                           (IF before.preferred_round >= anc.b1.round
                            THEN before.preferred_round ELSE anc.b1.round)
                    /\ after.last_voted_round = p.block.round
               ELSE /\ after.votes_out = before.votes_out
                    /\ after.preferred_round = before.preferred_round
                    /\ after.last_voted_round = before.last_voted_round

\* A block was delivered and not voted although its round is above every
\* round voted: the first rule alone refused it.
C10_Witness ==
    /\ votes_out # <<>>
    /\ \E b \in store :
          /\ b.round > last_voted_round
          /\ \A i \in 1 .. Len(votes_out) : votes_out[i].vote.hash # digest(b)

(***************************************************************************)
(* A replica alone in its committee, leader of every round: its payloads   *)
(* are always ready, its store never fails and no timer fires, so rx_core  *)
(* yields what the core sent itself, and the sync requests of nodes that   *)
(* follow its broadcasts.  The loop serves a message that is ready.        *)
(***************************************************************************)
SoloRequesters == {Name + 1}

SoloSyncRequest ==
    /\ pc = "loop"
    /\ \E b \in { x \in Range(blocks_out) : x.round + 2 <= SoloRounds },
          sender \in SoloRequesters :
          Becomes(handle_sync_request(St, digest(b), sender))
    /\ UNCHANGED pc

SoloLoopBack ==
    /\ OwnBlockNext
    /\ Becomes(process_block(Served, loopback[1].block, "ok"))
    /\ UNCHANGED pc

SoloVote ==
    /\ pc = "loop"
    /\ loopback # <<>>
    /\ loopback[1].type = "Vote"
    /\ loopback[1].vote.round < SoloRounds
    /\ Becomes(handle_vote(Served, loopback[1].vote))
    /\ UNCHANGED pc

SoloNext == Boot \/ SoloLoopBack \/ SoloVote \/ SoloSyncRequest
SpecSolo ==
    Started(1 .. 1) /\ [][SoloNext]_vars /\ WF_vars(Boot \/ SoloLoopBack \/ SoloVote)

\* The number of times x was sent on the channel q.
Times(q, x) == Cardinality({ i \in 1 .. Len(q) : q[i] = x })

(***************************************************************************)
(* C11  Single-node bootstrap: after boot the first block broadcast is of  *)
(* round 1 and carries the genesis QC; the self-votes and self-proposals   *)
(* eventually put it on the commit channel, not before round 4, and it     *)
(* stays there exactly once.                                               *)
(***************************************************************************)
SoloFirstBlock == NewBlock(QCGenesis, None, Name, 1)

C11_SoloBootstrap ==
    /\ [](pc = "loop" => (blocks_out # <<>> /\ blocks_out[1] = SoloFirstBlock))
    /\ [](Times(commit_channel, SoloFirstBlock) > 0 => round >= 4)
    /\ [](Times(commit_channel, SoloFirstBlock) <= 1)
    /\ <>[](Times(commit_channel, SoloFirstBlock) = 1)

\* The round-1 block has just been committed, by the delivery of the block
\* of round 4.
C11_Witness ==
    /\ committee = 1 .. 1
    /\ round = 4
    /\ commit_channel # <<>>
    /\ commit_channel[Len(commit_channel)] = SoloFirstBlock

(***************************************************************************)
(* C12  Old-vote discard: handle_vote of a vote whose round is below the   *)
(* core's adds nothing to the aggregator, makes no block and changes       *)
(* nothing else.                                                           *)
(***************************************************************************)
\* The votes rx_core can yield in the current state.
InboundVotes ==
    PeerVotes(committee)
    \cup (IF loopback # <<>> /\ loopback[1].type = "Vote"
          THEN {loopback[1].vote} ELSE {})

C12_OldVoteDiscard ==
    pc = "loop" =>
        \A v \in InboundVotes : v.round < round => handle_vote(St, v) = St

\* A vote of a round below the core's arrives, one the aggregator would
\* have taken.
C12_Witness ==
    /\ pc = "loop"
    /\ \E v \in InboundVotes : v.round < round /\ agg_accepts(St, v)

(***************************************************************************)
(* C13  Deferred processing: an execution of process_block(b) that finds   *)
(* the payload not ready, or no ancestors, writes nothing to the store,    *)
(* emits nothing, touches no timer and leaves round, last_voted_round,     *)
(* preferred_round and highest_qc as they were: the block is left with the *)
(* mempool or the synchronizer and nothing else changes.  The LoopBack of  *)
(* a block so left, once its payload and ancestors are there, stores it    *)
(* and leaves round at b.round or above.                                   *)
(***************************************************************************)
PutOff(p) ==
    \/ p.f = "not_ready"
    \/ p.f = "ok" /\ get_ancestors(p.before.store, p.block) = None

C13_DeferredProcessing ==
    \A p \in ProcessSteps :
        /\ PutOff(p) =>
              p.after = [p.before EXCEPT !.deferred = @ \cup {p.block}]
        /\ (/\ p.via = "LoopBack"
            /\ p.block \in deferred
            /\ p.block \notin p.before.deferred
            /\ p.f = "ok"
            /\ get_ancestors(p.before.store, p.block) # None)
           => /\ p.block \in p.after.store
              /\ p.block \notin p.after.deferred
              /\ p.after.round >= p.block.round
              /\ p.after = deliver(p.before, get_ancestors(p.before.store, p.block)[1],
                                   p.block)

\* A block was put off, its ancestors have been delivered since, and its
\* LoopBack will take the core to a higher round.
C13_Witness ==
    \E b \in deferred :
        /\ get_ancestors(store, b) # None
        /\ get_previous_block(store, b) # Some(Genesis)
        /\ round < b.round

(***************************************************************************)
(* C14  Pacemaker step: the service of a timer fire raises round by one,   *)
(* emits one timeout-vote of the new round to the leader of the round      *)
(* after it (on the loopback when that is this replica, on the network     *)
(* otherwise), schedules the timer of the new round, and leaves            *)
(* last_voted_round, preferred_round and highest_qc as they were.          *)
(***************************************************************************)
C14_PacemakerStep ==
    [][(rx_timer # <<>> /\ rx_timer' = Tail(rx_timer)) =>
         LET timeout == NewTimeout(round + 1, Name)
             leader == get_leader(committee, round + 2)
         IN /\ round' = round + 1
            /\ votes_out' = Append(votes_out, [vote |-> timeout, to |-> leader])
            /\ loopback' = IF leader = Name
                           THEN Append(loopback, [type |-> "Vote", vote |-> timeout])
                           ELSE loopback
            /\ timers' = timers \cup {round + 1}
            /\ UNCHANGED <<last_voted_round, preferred_round, highest_qc>>]_vars

\* Timer fires were served, one whose timeout-vote went to another replica
\* and one whose timeout-vote went to the loopback.
C14_Witness ==
    /\ \E i \in 1 .. Len(votes_out) :
          votes_out[i].vote.kind = "timeout" /\ votes_out[i].to # Name
    /\ \E i \in 1 .. Len(votes_out) :
          votes_out[i].vote.kind = "timeout" /\ votes_out[i].to = Name

C16_VoteRouting ==
    \A i \in 1 .. Len(votes_out) :
        IsBlockVote(votes_out[i]) =>
            votes_out[i].to = get_leader(committee, votes_out[i].vote.round + 1)

(***************************************************************************)
(* C17  Per-message rejection: a Propose(b) with b.round > round whose     *)
(* round does not follow its certificate, whose author is not the leader   *)
(* of its round, or whose signature, QC or TC does not verify, leaves the  *)
(* core as it was: nothing stored, nothing emitted, no variable changed,   *)
(* and the loop where it was, with the same messages and timers to serve.  *)
(***************************************************************************)
Refused(block, f) ==
    \/ block.tc # None /\ block.round # block.tc[1].round + 1
    \/ block.tc = None /\ block.round # block.qc.round + 1
    \/ block.author # get_leader(committee, block.round)
    \/ f = "bad_sig"
    \/ f = "bad_qc" /\ block.qc # QCGenesis
    \/ f = "bad_tc" /\ block.tc # None

C18_StaleTimersIgnored ==
    [][(rx_timer # <<>> /\ rx_timer' = Tail(rx_timer) /\ rx_timer[1] # round) =>
         (round' = round /\ votes_out' = votes_out)]_vars

(***************************************************************************)
(* C19  Leader non-equivocation: this replica broadcasts at most one block *)
(* of each round.                                                          *)
(***************************************************************************)
C19_OneBlockPerRound ==
    \A i, j \in 1 .. Len(blocks_out) :
        i < j => blocks_out[i].round # blocks_out[j].round

(***************************************************************************)
(* C20  Commit at most once: no block is sent on the commit channel more   *)
(* than once.                                                              *)
(***************************************************************************)
C20_CommitAtMostOnce ==
    \A i, j \in 1 .. Len(commit_channel) :
        i < j => commit_channel[i] # commit_channel[j]

====
